---- MODULE Spec2Model ----
(***************************************************************************)
(* Streaming event normalisation of the anthropic-sdk crates.              *)
(*                                                                         *)
(* The reconstruction adapter is the generator returned by                 *)
(* AnthropicBedrock::messages_stream (crates/bedrock/src/bedrock.rs,       *)
(* lines 476-587).  It is a pull-driven generator: every poll by the       *)
(* consumer resumes it at the suspension point it stopped at (a yield or   *)
(* the s.recv().await of the loop head) and runs it to the next one.       *)
(* The native channel `s` is the environment: what recv() returns is       *)
(* chosen nondeterministically among the values its type allows.           *)
(*                                                                         *)
(* Block indices and token counts are i32 on the native side and are cast  *)
(* with `as u64` / `as u32`; the model draws them from non-negative        *)
(* values, on which the casts preserve the value.                          *)
(***************************************************************************)
EXTENDS Integers, Sequences, FiniteSets, TLC

\* ------------------------------------------------------------------ bounds
\* number of native events the channel delivers before it ends or fails
MaxNative == 3
\* native content block indices are 0..MaxIndex
MaxIndex == 1

\* ----------------------------------------------------------- Option values
None == <<>>
Some(x) == <<x>>
Option(S) == {None} \cup {Some(x) : x \in S}
is_some(o) == o # None
is_none(o) == o = None
unwrap(o) == o[1]

\* ------------------------------------------------- native (Bedrock) values
Indices == 0..MaxIndex
Texts == {"Hi"}
Partials == {"{"}
ToolUseIds == {"tu_1"}
ToolNames == {"get_weather"}
RequestIds == {"req_1"}
RequestModel == "anthropic.claude-3-5-sonnet-20240620-v1:0"

\* types::ContentBlockDelta is #[non_exhaustive]: Text, ToolUse and others
NativeBlockDelta ==
    {[kind |-> "Text", text |-> t] : t \in Texts}
    \cup {[kind |-> "ToolUse", input |-> p] : p \in Partials}
    \cup {[kind |-> "Unknown"]}

\* types::ContentBlockStart is #[non_exhaustive]: ToolUse and others
NativeBlockStart ==
    {[kind |-> "ToolUse", tool_use_id |-> i, name |-> n] :
        i \in ToolUseIds, n \in ToolNames}
    \cup {[kind |-> "Unknown"]}

\* types::StopReason: the four the adapter maps, and the ones it does not
MappedStopReasons == {"EndTurn", "MaxTokens", "StopSequence", "ToolUse"}
NativeStopReasons == MappedStopReasons \cup {"ContentFiltered"}

\* types::TokenUsage
NativeUsage == {[input_tokens |-> 5, output_tokens |-> 2]}

\* types::ConverseStreamOutput, as delivered by s.recv()
NativeEvent ==
    {[kind |-> "ContentBlockDelta", content_block_index |-> i, delta |-> d] :
        i \in Indices, d \in Option(NativeBlockDelta)}
    \cup {[kind |-> "ContentBlockStart", content_block_index |-> i, start |-> st] :
        i \in Indices, st \in Option(NativeBlockStart)}
    \cup {[kind |-> "ContentBlockStop", content_block_index |-> i] : i \in Indices}
    \cup {[kind |-> "MessageStart"]}
    \cup {[kind |-> "MessageStop", stop_reason |-> r] : r \in NativeStopReasons}
    \cup {[kind |-> "Metadata", usage |-> u] : u \in Option(NativeUsage)}
    \cup {[kind |-> "Unknown"]}

NoEvent == [kind |-> "NoEvent"]

\* the native events of a whole turn: message start, one text delta for
\* block 0, its stop, the stop reason and the usage
WholeTurn ==
    << [kind |-> "MessageStart"],
       [kind |-> "ContentBlockDelta", content_block_index |-> 0,
        delta |-> Some([kind |-> "Text", text |-> "Hi"])],
       [kind |-> "ContentBlockStop", content_block_index |-> 0],
       [kind |-> "MessageStop", stop_reason |-> "EndTurn"],
       [kind |-> "Metadata", usage |-> Some([input_tokens |-> 5, output_tokens |-> 2])] >>

\* ------------------------------------------------------------ JSON values
\* a JSON document as serde_json reads it; Malformed is a text that is no JSON
JNull == [null |-> TRUE]
JBool(b) == [bool |-> b]
JNum(n) == [num |-> n]
JStr(x) == [str |-> x]
JArr(q) == [arr |-> q]
JObj(fields) == [obj |-> fields]
Malformed == [malformed |-> TRUE]

is_null(j) == DOMAIN j = {"null"}
is_num(j) == DOMAIN j = {"num"}
is_str(j) == DOMAIN j = {"str"}
is_arr(j) == DOMAIN j = {"arr"}
is_obj(j) == DOMAIN j = {"obj"}

\* ------------------------------------------------ canonical (produced) items
Ok(e) == [ok |-> TRUE, event |-> e]
Err(m) == [ok |-> FALSE, error |-> m]

Text(t) == [type |-> "text", text |-> t]
TextDelta(t) == [type |-> "text_delta", text |-> t]
InputJsonDelta(p) == [type |-> "input_json_delta", partial |-> p]
ToolUse(i, n, inp) == [type |-> "tool_use", id |-> i, name |-> n, input |-> inp]

Usage(inp, out) == [input_tokens |-> inp, output_tokens |-> out]

MessageResponse(id, model) ==
    [id |-> id, kind |-> "message", model |-> model, role |-> "assistant",
     content |-> <<>>, stop_reason |-> None, stop_sequence |-> None,
     usage |-> Usage(None, 0)]

EventMessageDelta(r) == [stop_reason |-> r, stop_sequence |-> None]

MessageStart(m) == [type |-> "message_start", message |-> m]
ContentBlockStart(i, b) == [type |-> "content_block_start", index |-> i, content_block |-> b]
ContentBlockDelta(i, d) == [type |-> "content_block_delta", index |-> i, delta |-> d]
ContentBlockStop(i) == [type |-> "content_block_stop", index |-> i]
MessageDelta(d, u) == [type |-> "message_delta", delta |-> d, usage |-> u]
MessageStop == [type |-> "message_stop"]

\* --------------------------------------------------------------- the state
VARIABLES
    request_id,           \* response.request_id(): Option<&str>
    pc,                   \* where the generator is suspended
    s,                    \* the native channel: "open", "ended" (Ok(None)), "failed" (Err)
    event,                \* the native event the loop body is working on
    event_message_delta,  \* Option<EventMessageDelta>: the staged stop reason
    block_starts,         \* HashSet<u64>: the announced block indices
    produced,             \* the items yielded to the consumer so far
    pulls,                \* the number of times the consumer has asked for an item
    received              \* history: the native events recv() has returned, each
                          \* with the number of items produced and the stop
                          \* reason staged when it was returned

\* the state of the reconstruction adapter
stream_vars ==
    <<request_id, pc, s, event, event_message_delta, block_starts, produced, pulls, received>>

\* the passthrough adapter: the generator of MessagesStream::messages_stream
\* (crates/anthropic/src/messages.rs, lines 535-552)
VARIABLES
    sse_pc,               \* where the generator is suspended
    es,                   \* the EventSource: "none", "open" or "closed"
    sse_produced,         \* the items yielded to the consumer so far
    sse_pulls,            \* the number of times the consumer has asked for an item
    frames                \* history: what es.next() has returned, each with the
                          \* number of items produced before it

sse_vars == <<sse_pc, es, sse_produced, sse_pulls, frames>>

\* CreateMessageRequestBuilder (crates/anthropic/src/messages.rs, lines 302-412)
VARIABLES
    builder,              \* self: the eleven Option fields
    calls,                \* history: the setter calls made, with their arguments
    build_result          \* None until build() ran, then Some(its Result)

builder_vars == <<builder, calls, build_result>>

\* Messages::messages, the decoding of the body (messages.rs, lines 496-504)
VARIABLES
    text,                 \* the body of the response
    decoded               \* None until serde_json::from_str ran, then Some(its Result)

decode_vars == <<text, decoded>>

\* a Content field of a request (Message::content, CreateMessageRequest::system)
\* written to and read from JSON (messages.rs, lines 32-93 and 208-212)
VARIABLES
    content_field,        \* "content" or "system"
    content_origin,       \* "value": a request in memory, "wire": an incoming JSON
    content_value,        \* the field in memory, an Option<Content>
    content_wire,         \* the member on the wire: None when absent, else Some(JSON)
    content_back,         \* None until the field was deserialized, then Some(outcome)
    content_pc            \* "value", "wire", "done"

content_vars ==
    <<content_field, content_origin, content_value, content_wire, content_back, content_pc>>

\* the submission of a request: Messages::messages and
\* MessagesStream::messages_stream up to the call of the transport
\* (messages.rs 479-503 and 513-536, bedrock.rs 94-252 and 328-474)
VARIABLES
    backend,              \* "anthropic", "vertexai" or "bedrock"
    stream,               \* messages_stream (TRUE) or messages (FALSE)
    request,              \* the CreateMessageRequest submitted
    submit_pc,            \* "idle", "called", "sent", "failed", "panicked"
    prepared,             \* what request_builder returned: "none", "ok", "err"
    sent                  \* the requests handed to the transport

submit_vars == <<backend, stream, request, submit_pc, prepared, sent>>

\* several reconstruction streams at once, each the generator of one call of
\* AnthropicBedrock::messages_stream (bedrock.rs, lines 476-587)
VARIABLES
    locals,               \* the bookkeeping of the generators: for each cell its
                          \* event_message_delta and block_starts
    outputs               \* for each stream its pc, the native events it has
                          \* received and the items it has produced

concurrent_vars == <<locals, outputs>>

vars ==
    <<stream_vars, sse_vars, builder_vars, decode_vars, content_vars, submit_vars,
      concurrent_vars>>

\* what each component leaves alone
outside_stream == <<sse_vars, builder_vars, decode_vars, content_vars, submit_vars, concurrent_vars>>
outside_sse == <<stream_vars, builder_vars, decode_vars, content_vars, submit_vars, concurrent_vars>>
outside_builder == <<stream_vars, sse_vars, decode_vars, content_vars, submit_vars, concurrent_vars>>
outside_decode == <<stream_vars, sse_vars, builder_vars, content_vars, submit_vars, concurrent_vars>>
outside_content == <<stream_vars, sse_vars, builder_vars, decode_vars, submit_vars, concurrent_vars>>
outside_submit == <<stream_vars, sse_vars, builder_vars, decode_vars, content_vars, concurrent_vars>>
outside_concurrent == <<stream_vars, sse_vars, builder_vars, decode_vars, content_vars, submit_vars>>

\* no response is being decoded
DecodeIdle ==
    /\ text = None
    /\ decoded = None

\* no concurrent streams
ConcurrentIdle ==
    /\ locals = <<>>
    /\ outputs = <<>>

\* no request is submitted
SubmitIdle ==
    /\ backend = "none"
    /\ stream = FALSE
    /\ request = None
    /\ submit_pc = "idle"
    /\ prepared = "none"
    /\ sent = <<>>

\* no Content field is being written or read
ContentIdle ==
    /\ content_field = "none"
    /\ content_origin = "none"
    /\ content_value = None
    /\ content_wire = None
    /\ content_back = None
    /\ content_pc = "idle"

\* no builder exists
BuilderIdle ==
    /\ builder = None
    /\ calls = <<>>
    /\ build_result = None

\* the passthrough adapter when no stream of it exists
SseIdle ==
    /\ sse_pc = "idle"
    /\ es = "none"
    /\ sse_produced = <<>>
    /\ sse_pulls = 0
    /\ frames = <<>>

\* the reconstruction adapter when no stream of it exists
StreamIdle ==
    /\ request_id = None
    /\ pc = "idle"
    /\ s = "none"
    /\ event = NoEvent
    /\ event_message_delta = None
    /\ block_starts = {}
    /\ produced = <<>>
    /\ pulls = 0
    /\ received = <<>>

Init ==
    /\ request_id \in Option(RequestIds)
    /\ pc = "created"
    /\ s = "open"
    /\ event = NoEvent
    /\ event_message_delta = None
    /\ block_starts = {}
    /\ produced = <<>>
    /\ pulls = 0
    /\ received = <<>>
    /\ SseIdle
    /\ BuilderIdle
    /\ DecodeIdle
    /\ ContentIdle
    /\ SubmitIdle
    /\ ConcurrentIdle

\* an item put in front of the ones produced before
yield_front(item) == produced' = <<item>> \o produced

yield(item) == produced' = Append(produced, item)

\* a generator that runs whether or not the consumer asked for an item
polled_always == TRUE

\* the generator runs inside poll_next only: the consumer has asked for an
\* item it has not been given yet
polled == pulls > Len(produced)

\* the consumer asks for the next item: s.next()
Pull ==
    /\ pc \in {"created", "recv", "yield_content_block_delta", "yield_message_stop"}
    /\ pulls = Len(produced)
    /\ pulls' = pulls + 1
    /\ UNCHANGED <<outside_stream, request_id, pc, s, event, event_message_delta,
                   block_starts, produced, received>>

\* first poll: lines 477-493
Start ==
    /\ pc = "created"
    /\ polled
    /\ IF is_none(request_id)
         THEN /\ pc' = "panicked"
              /\ UNCHANGED produced
         ELSE /\ yield(Ok(MessageStart(MessageResponse(unwrap(request_id), RequestModel))))
              /\ pc' = "recv"
    /\ UNCHANGED <<outside_stream, pulls, request_id, s, event, event_message_delta, block_starts, received>>

\* the native events received so far
Events == [k \in 1..Len(received) |-> received[k].event]

\* what the channel delivers: any MaxNative events, and the whole turn
delivers(ev) ==
    \/ Len(received) < MaxNative
    \/ /\ Len(received) < Len(WholeTurn)
       /\ Append(Events, ev) = SubSeq(WholeTurn, 1, Len(received) + 1)

\* s.recv().await returns Ok(Some(ev)): the loop head of line 496
recv(ev) ==
    /\ pc = "recv"
    /\ polled
    /\ s = "open"
    /\ delivers(ev)
    /\ received' = Append(received, [event |-> ev, at |-> Len(produced),
                                     staged |-> event_message_delta])

\* a membership test that always answers "present"
contains_always(set, index) == TRUE

\* block_starts.contains(&index)
contains(set, index) == index \in set

\* lines 510-521: the canonical delta of a native block delta; <<>> is the
\* unreachable!() of an absent or unrecognised payload
delta_part(block_delta) ==
    IF is_none(block_delta.delta) THEN None
    ELSE LET d == unwrap(block_delta.delta) IN
         CASE d.kind = "Text" -> Some(TextDelta(d.text))
           [] d.kind = "ToolUse" -> Some(InputJsonDelta(d.input))
           [] OTHER -> None

\* lines 531-541: the content block of a native block start; <<>> is the
\* unreachable!() of an unrecognised payload; the input "{}".into() is a
\* serde_json::Value made from a &str, the string "{}"
start_part(block_start) ==
    IF is_none(block_start.start) THEN Some(Text(""))
    ELSE LET st == unwrap(block_start.start) IN
         CASE st.kind = "ToolUse" -> Some(ToolUse(st.tool_use_id, st.name, JStr("{}")))
           [] OTHER -> None

\* lines 555-561: the canonical stop reason; <<>> is the unreachable!()
stop_reason_of(r) ==
    CASE r = "EndTurn" -> Some("end_turn")
      [] r = "MaxTokens" -> Some("max_tokens")
      [] r = "StopSequence" -> Some("stop_sequence")
      [] r = "ToolUse" -> Some("tool_use")
      [] OTHER -> None

\* reading the staged value without clearing it
take_keeps(o) == o

\* Option::take leaves None behind (line 573)
take(o) == None

\* an insert that forgets the index
insert_nothing(set, index) == set

\* HashSet::insert (lines 501 and 526)
insert(set, index) == set \cup {index}

\* lines 508-522: yield the ContentBlockDelta of block_delta, or panic
yield_content_block_delta(block_delta) ==
    LET part == delta_part(block_delta) IN
    IF is_none(part)
      THEN /\ pc' = "panicked"
           /\ UNCHANGED produced
      ELSE /\ yield(Ok(ContentBlockDelta(block_delta.content_block_index, unwrap(part))))
           /\ pc' = "recv"

\* lines 498-507 (and 508-522 when the index is already announced)
OnContentBlockDelta ==
    \E ev \in NativeEvent :
        /\ ev.kind = "ContentBlockDelta"
        /\ recv(ev)
        /\ LET index == ev.content_block_index IN
           IF ~contains(block_starts, index)
             THEN /\ block_starts' = insert(block_starts, index)
                  /\ yield(Ok(ContentBlockStart(index, Text(""))))
                  /\ pc' = "yield_content_block_delta"
                  /\ event' = ev
             ELSE /\ yield_content_block_delta(ev)
                  /\ UNCHANGED <<block_starts, event>>
        /\ UNCHANGED <<outside_stream, pulls, request_id, s, event_message_delta>>

\* resumed after the synthesized ContentBlockStart: lines 508-522
YieldContentBlockDelta ==
    /\ pc = "yield_content_block_delta"
    /\ polled
    /\ yield_content_block_delta(event)
    /\ event' = NoEvent
    /\ UNCHANGED <<outside_stream, pulls, request_id, s, event_message_delta, block_starts, received>>

\* lines 523-542
OnContentBlockStart ==
    \E ev \in NativeEvent :
        /\ ev.kind = "ContentBlockStart"
        /\ recv(ev)
        /\ LET index == ev.content_block_index
               part == start_part(ev)
           IN  /\ block_starts' = IF ~contains(block_starts, index)
                                     THEN insert(block_starts, index)
                                     ELSE block_starts
               /\ IF is_none(part)
                    THEN /\ pc' = "panicked"
                         /\ UNCHANGED produced
                    ELSE /\ yield(Ok(ContentBlockStart(index, unwrap(part))))
                         /\ pc' = "recv"
        /\ UNCHANGED <<outside_stream, pulls, request_id, s, event, event_message_delta>>

\* lines 543-546
OnContentBlockStop ==
    \E ev \in NativeEvent :
        /\ ev.kind = "ContentBlockStop"
        /\ recv(ev)
        /\ yield(Ok(ContentBlockStop(ev.content_block_index)))
        /\ pc' = "recv"
        /\ UNCHANGED <<outside_stream, pulls, request_id, s, event, event_message_delta, block_starts>>

\* lines 547-549
OnMessageStart ==
    \E ev \in NativeEvent :
        /\ ev.kind = "MessageStart"
        /\ recv(ev)
        /\ pc' = "recv"
        /\ UNCHANGED <<outside_stream, pulls, request_id, s, event, event_message_delta, block_starts, produced>>

\* the message-stop arm with a second stop reason replacing the staged one
OnMessageStop_replacing ==
    \E ev \in NativeEvent :
        /\ ev.kind = "MessageStop"
        /\ recv(ev)
        /\ LET r == stop_reason_of(ev.stop_reason) IN
           IF is_none(r)
             THEN /\ pc' = "panicked"
                  /\ UNCHANGED <<produced, event_message_delta>>
             ELSE /\ event_message_delta' = Some(EventMessageDelta(unwrap(r)))
                  /\ pc' = "recv"
                  /\ IF is_some(event_message_delta)
                       THEN yield(Err("duplicated message delta"))
                       ELSE UNCHANGED produced
        /\ UNCHANGED <<outside_stream, pulls, request_id, s, event, block_starts>>

\* lines 550-566
OnMessageStop ==
    \E ev \in NativeEvent :
        /\ ev.kind = "MessageStop"
        /\ recv(ev)
        /\ IF is_some(event_message_delta)
             THEN /\ yield(Err("duplicated message delta"))
                  /\ pc' = "recv"
                  /\ UNCHANGED event_message_delta
             ELSE LET r == stop_reason_of(ev.stop_reason) IN
                  IF is_none(r)
                    THEN /\ pc' = "panicked"
                         /\ UNCHANGED <<produced, event_message_delta>>
                    ELSE /\ event_message_delta' = Some(EventMessageDelta(unwrap(r)))
                         /\ pc' = "recv"
                         /\ UNCHANGED produced
        /\ UNCHANGED <<outside_stream, pulls, request_id, s, event, block_starts>>

\* the metadata arm without its missing-stop-reason error
OnMetadata_silent ==
    \E ev \in NativeEvent :
        /\ ev.kind = "Metadata"
        /\ recv(ev)
        /\ IF is_none(event_message_delta)
             THEN /\ pc' = "recv"
                  /\ UNCHANGED <<produced, event_message_delta>>
             ELSE IF is_none(ev.usage)
                    THEN /\ pc' = "panicked"
                         /\ UNCHANGED <<produced, event_message_delta>>
                    ELSE LET metadata == unwrap(ev.usage) IN
                         /\ yield(Ok(MessageDelta(unwrap(event_message_delta),
                                  Usage(Some(metadata.input_tokens), metadata.output_tokens))))
                         /\ event_message_delta' = take(event_message_delta)
                         /\ pc' = "yield_message_stop"
        /\ UNCHANGED <<outside_stream, pulls, request_id, s, event, block_starts>>

\* lines 567-578
OnMetadata ==
    \E ev \in NativeEvent :
        /\ ev.kind = "Metadata"
        /\ recv(ev)
        /\ IF is_none(event_message_delta)
             THEN /\ yield(Err("no message delta"))
                  /\ pc' = "recv"
                  /\ UNCHANGED event_message_delta
             ELSE IF is_none(ev.usage)
                    THEN /\ pc' = "panicked"
                         /\ UNCHANGED <<produced, event_message_delta>>
                    ELSE LET metadata == unwrap(ev.usage) IN
                         /\ yield(Ok(MessageDelta(unwrap(event_message_delta),
                                  Usage(Some(metadata.input_tokens), metadata.output_tokens))))
                         /\ event_message_delta' = take(event_message_delta)
                         /\ pc' = "yield_message_stop"
        /\ UNCHANGED <<outside_stream, pulls, request_id, s, event, block_starts>>

\* resumed after the MessageDelta: line 579
YieldMessageStop ==
    /\ pc = "yield_message_stop"
    /\ polled
    /\ yield(Ok(MessageStop))
    /\ pc' = "recv"
    /\ UNCHANGED <<outside_stream, pulls, request_id, s, event, event_message_delta, block_starts, received>>

\* lines 581-584: any other native event
OnUnrecognized ==
    \E ev \in NativeEvent :
        /\ ev.kind \notin {"ContentBlockDelta", "ContentBlockStart", "ContentBlockStop",
                           "MessageStart", "MessageStop", "Metadata"}
        /\ recv(ev)
        /\ pc' = "panicked"
        /\ UNCHANGED <<outside_stream, pulls, request_id, s, event, event_message_delta, block_starts, produced>>

\* a loop that asks the finished channel again instead of ending
OnRecvEnd_looping ==
    /\ pc = "recv"
    /\ polled
    /\ s = "open"
    /\ s' \in {"ended", "failed"}
    /\ pc' = "recv"
    /\ UNCHANGED <<outside_stream, pulls, request_id, event, event_message_delta, block_starts, produced, received>>

\* line 496: recv() returns Ok(None) or Err(_); the while-let ends the generator
OnRecvEnd ==
    /\ pc = "recv"
    /\ polled
    /\ s = "open"
    /\ s' \in {"ended", "failed"}
    /\ pc' = "done"
    /\ UNCHANGED <<outside_stream, pulls, request_id, event, event_message_delta, block_starts, produced, received>>

\* the consumer drops the stream at a suspension point
Drop ==
    /\ pc \in {"created", "recv", "yield_content_block_delta", "yield_message_stop"}
    /\ pc' = "dropped"
    /\ UNCHANGED <<outside_stream, pulls, request_id, s, event, event_message_delta, block_starts, produced, received>>

Next ==
    \/ Pull
    \/ Start
    \/ OnContentBlockDelta
    \/ YieldContentBlockDelta
    \/ OnContentBlockStart
    \/ OnContentBlockStop
    \/ OnMessageStart
    \/ OnMessageStop
    \/ OnMetadata
    \/ YieldMessageStop
    \/ OnUnrecognized
    \/ OnRecvEnd
    \/ Drop

Spec == Init /\ [][Next]_vars

\* the generator resumed after a yield, and the generator at s.recv().await
Resume == Start \/ YieldContentBlockDelta \/ YieldMessageStop

Receive ==
    \/ OnContentBlockDelta
    \/ OnContentBlockStart
    \/ OnContentBlockStop
    \/ OnMessageStart
    \/ OnMessageStop
    \/ OnMetadata
    \/ OnUnrecognized
    \/ OnRecvEnd

\* a consumer that never drops the stream
PullingNext ==
    \/ Pull
    \/ Resume
    \/ Receive

\* the consumer keeps pulling, a pulled generator runs to its next yield,
\* and the channel answers every recv(), in the end with its end or failure
SpecPulling ==
    /\ Init
    /\ [][PullingNext]_vars
    /\ WF_vars(Pull)
    /\ WF_vars(Resume)
    /\ WF_vars(Receive)

\* ----------------------------------------------------------- reading JSON
\* the object j has a member f
has(j, f) == is_obj(j) /\ f \in DOMAIN j.obj
\* the object j has a member f that is not null
has_value(j, f) == has(j, f) /\ ~is_null(j.obj[f])
\* the internally tagged enums: the member "type" selects the variant
tag_of(j) == IF has(j, "type") /\ is_str(j.obj["type"]) THEN Some(j.obj["type"].str) ELSE None

\* a member deserialized as String (required)
string_field(j, f) == IF has(j, f) /\ is_str(j.obj[f]) THEN Some(j.obj[f].str) ELSE None
\* a member deserialized as u32/u64 (required)
unsigned_field(j, f) ==
    IF has(j, f) /\ is_num(j.obj[f]) /\ j.obj[f].num >= 0 THEN Some(j.obj[f].num) ELSE None

\* MediaType (messages.rs 95-106)
MediaTypes == {"image/jpeg", "image/png", "image/gif", "image/webp"}

\* ImageSource (messages.rs 108-114)
parse_image_source(j) ==
    IF /\ is_some(string_field(j, "type"))
       /\ is_some(string_field(j, "media_type"))
       /\ unwrap(string_field(j, "media_type")) \in MediaTypes
       /\ is_some(string_field(j, "data"))
      THEN Some([kind |-> unwrap(string_field(j, "type")),
                 media_type |-> unwrap(string_field(j, "media_type")),
                 data |-> unwrap(string_field(j, "data"))])
      ELSE None

\* derive(Deserialize) of ContentPart (messages.rs 116-140), tag = "type"
parse_content_part(j) ==
    IF is_none(tag_of(j)) THEN None
    ELSE LET tag == unwrap(tag_of(j)) IN
      CASE tag = "text" ->
             IF is_some(string_field(j, "text"))
               THEN Some(Text(unwrap(string_field(j, "text")))) ELSE None
        [] tag = "text_delta" ->
             IF is_some(string_field(j, "text"))
               THEN Some(TextDelta(unwrap(string_field(j, "text")))) ELSE None
        [] tag = "image" ->
             IF has(j, "source") /\ is_some(parse_image_source(j.obj["source"]))
               THEN Some([type |-> "image", source |-> unwrap(parse_image_source(j.obj["source"]))])
               ELSE None
        [] tag = "tool_result" ->
             IF is_some(string_field(j, "tool_use_id")) /\ is_some(string_field(j, "content"))
               THEN Some([type |-> "tool_result",
                          tool_use_id |-> unwrap(string_field(j, "tool_use_id")),
                          content |-> unwrap(string_field(j, "content"))])
               ELSE None
        [] tag = "tool_use" ->
             IF /\ is_some(string_field(j, "id"))
                /\ is_some(string_field(j, "name"))
                /\ has(j, "input")
               THEN Some(ToolUse(unwrap(string_field(j, "id")),
                                 unwrap(string_field(j, "name")), j.obj["input"]))
               ELSE None
        [] tag = "input_json_delta" ->
             IF is_some(string_field(j, "partial_json"))
               THEN Some(InputJsonDelta(unwrap(string_field(j, "partial_json")))) ELSE None
        [] OTHER -> None

\* Vec<ContentPart>
parse_content_parts(j) ==
    IF is_arr(j) /\ \A i \in 1..Len(j.arr) : is_some(parse_content_part(j.arr[i]))
      THEN Some([i \in 1..Len(j.arr) |-> unwrap(parse_content_part(j.arr[i]))])
      ELSE None

\* StopReason (messages.rs 248-259)
StopReasons == {"end_turn", "max_tokens", "stop_sequence", "tool_use"}

parse_stop_reason(j) == IF is_str(j) /\ j.str \in StopReasons THEN Some(j.str) ELSE None

\* Usage (messages.rs 261-267): input_tokens is optional
parse_usage(j) ==
    IF /\ is_some(unsigned_field(j, "output_tokens"))
       /\ has_value(j, "input_tokens") => is_some(unsigned_field(j, "input_tokens"))
      THEN Some(Usage(IF has_value(j, "input_tokens")
                        THEN unsigned_field(j, "input_tokens") ELSE None,
                      unwrap(unsigned_field(j, "output_tokens"))))
      ELSE None

\* MessageResponse (messages.rs 269-278): stop_reason and stop_sequence are optional
parse_message_response(j) ==
    IF /\ is_some(string_field(j, "id"))
       /\ is_some(string_field(j, "model"))
       /\ is_some(string_field(j, "role"))
       /\ has(j, "content") /\ is_some(parse_content_parts(j.obj["content"]))
       /\ has_value(j, "stop_reason") => is_some(parse_stop_reason(j.obj["stop_reason"]))
       /\ has_value(j, "stop_sequence") => is_some(string_field(j, "stop_sequence"))
       /\ has(j, "usage") /\ is_some(parse_usage(j.obj["usage"]))
      THEN Some([id |-> unwrap(string_field(j, "id")),
                 model |-> unwrap(string_field(j, "model")),
                 role |-> unwrap(string_field(j, "role")),
                 content |-> unwrap(parse_content_parts(j.obj["content"])),
                 stop_reason |-> IF has_value(j, "stop_reason")
                                   THEN parse_stop_reason(j.obj["stop_reason"]) ELSE None,
                 stop_sequence |-> IF has_value(j, "stop_sequence")
                                     THEN string_field(j, "stop_sequence") ELSE None,
                 usage |-> unwrap(parse_usage(j.obj["usage"]))])
      ELSE None

\* MessageResponseStream (messages.rs 280-286): "type" and the flattened response
parse_message_response_stream(j) ==
    IF is_some(string_field(j, "type")) /\ is_some(parse_message_response(j))
      THEN Some([kind |-> unwrap(string_field(j, "type")),
                 message_response |-> unwrap(parse_message_response(j))])
      ELSE None

\* EventMessageDelta (messages.rs 434-438)
parse_event_message_delta(j) ==
    IF /\ has(j, "stop_reason") /\ is_some(parse_stop_reason(j.obj["stop_reason"]))
       /\ has_value(j, "stop_sequence") => is_some(string_field(j, "stop_sequence"))
      THEN Some([stop_reason |-> unwrap(parse_stop_reason(j.obj["stop_reason"])),
                 stop_sequence |-> IF has_value(j, "stop_sequence")
                                     THEN string_field(j, "stop_sequence") ELSE None])
      ELSE None

\* serde_json::from_str::<Event> (messages.rs 440-464 and 541), tag = "type".
\* Event::Error(ErrorDetails) never parses: ErrorDetails needs a member
\* "type" of its own, and the tag has consumed the only one.
parse_event(j) ==
    IF is_none(tag_of(j)) THEN None
    ELSE LET tag == unwrap(tag_of(j)) IN
      CASE tag = "ping" -> Some([type |-> "ping"])
        [] tag = "message_start" ->
             IF has(j, "message") /\ is_some(parse_message_response_stream(j.obj["message"]))
               THEN Some(MessageStart(unwrap(parse_message_response_stream(j.obj["message"]))))
               ELSE None
        [] tag = "content_block_start" ->
             IF /\ is_some(unsigned_field(j, "index"))
                /\ has(j, "content_block") /\ is_some(parse_content_part(j.obj["content_block"]))
               THEN Some(ContentBlockStart(unwrap(unsigned_field(j, "index")),
                                           unwrap(parse_content_part(j.obj["content_block"]))))
               ELSE None
        [] tag = "content_block_delta" ->
             IF /\ is_some(unsigned_field(j, "index"))
                /\ has(j, "delta") /\ is_some(parse_content_part(j.obj["delta"]))
               THEN Some(ContentBlockDelta(unwrap(unsigned_field(j, "index")),
                                           unwrap(parse_content_part(j.obj["delta"]))))
               ELSE None
        [] tag = "content_block_stop" ->
             IF is_some(unsigned_field(j, "index"))
               THEN Some(ContentBlockStop(unwrap(unsigned_field(j, "index")))) ELSE None
        [] tag = "message_delta" ->
             IF /\ has(j, "delta") /\ is_some(parse_event_message_delta(j.obj["delta"]))
                /\ has(j, "usage") /\ is_some(parse_usage(j.obj["usage"]))
               THEN Some(MessageDelta(unwrap(parse_event_message_delta(j.obj["delta"])),
                                      unwrap(parse_usage(j.obj["usage"]))))
               ELSE None
        [] tag = "message_stop" -> Some(MessageStop)
        [] OTHER -> None

\* ------------------------------------------------- the passthrough adapter
\* number of frames the event source delivers
MaxFrames == 3

\* the data of the Message frames: JSON of events, and data that is no event
EventData ==
    { JObj([type |-> JStr("ping")]),
      JObj([type |-> JStr("content_block_start"), index |-> JNum(0),
            content_block |-> JObj([type |-> JStr("text"), text |-> JStr("")])]),
      JObj([type |-> JStr("content_block_delta"), index |-> JNum(0),
            delta |-> JObj([type |-> JStr("text_delta"), text |-> JStr("Hi")])]),
      JObj([type |-> JStr("content_block_stop"), index |-> JNum(0)]),
      JObj([type |-> JStr("message_delta"),
            delta |-> JObj([stop_reason |-> JStr("end_turn"), stop_sequence |-> JNull]),
            usage |-> JObj([output_tokens |-> JNum(2)])]),
      JObj([type |-> JStr("message_stop")]),
      JObj([type |-> JStr("content_block_stop")]),
      JObj([type |-> JStr("error"),
            error |-> JObj([type |-> JStr("overloaded_error"), message |-> JStr("Overloaded")])]),
      JObj([type |-> JStr("completion")]),
      Malformed }

\* http_client_eventsource::error::Error
EsErrors == {"StreamEnded", "Transport", "InvalidStatusCode"}

\* what es.next() returns while the source is open
Frame ==
    {[kind |-> "Open"]}
    \cup {[kind |-> "Message", data |-> d] : d \in EventData}
    \cup {[kind |-> "Err", err |-> e] : e \in EsErrors}

SseInit ==
    /\ StreamIdle
    /\ BuilderIdle
    /\ DecodeIdle
    /\ ContentIdle
    /\ SubmitIdle
    /\ ConcurrentIdle
    /\ sse_pc = "created"
    /\ es = "none"
    /\ sse_produced = <<>>
    /\ sse_pulls = 0
    /\ frames = <<>>

sse_yield(item) == sse_produced' = Append(sse_produced, item)

\* the generator runs inside poll_next only
sse_polled == sse_pulls > Len(sse_produced)

\* the consumer asks for the next item: stream.next()
SsePull ==
    /\ sse_pc \in {"created", "es_next", "return"}
    /\ sse_pulls = Len(sse_produced)
    /\ sse_pulls' = sse_pulls + 1
    /\ UNCHANGED <<outside_sse, sse_pc, es, sse_produced, frames>>

\* first poll, line 536: http_client.event_source(request)?
SseStart ==
    /\ sse_pc = "created"
    /\ sse_polled
    /\ \E opened \in BOOLEAN :
          IF opened
            THEN /\ es' = "open"
                 /\ sse_pc' = "es_next"
                 /\ UNCHANGED sse_produced
            ELSE /\ sse_yield(Err("event_source"))
                 /\ sse_pc' = "return"
                 /\ UNCHANGED es
    /\ UNCHANGED <<outside_sse, sse_pulls, frames>>

\* es.next().await returns Some(frame), line 537; a closed source has no more
es_next(frame) ==
    /\ sse_pc = "es_next"
    /\ sse_polled
    /\ es = "open"
    /\ Len(frames) < MaxFrames
    /\ frames' = Append(frames, [frame |-> frame, at |-> Len(sse_produced)])

\* an Open frame reported to the consumer as a ping
OnOpen_yields ==
    \E frame \in Frame :
        /\ frame.kind = "Open"
        /\ es_next(frame)
        /\ sse_yield(Ok([type |-> "ping"]))
        /\ UNCHANGED <<outside_sse, sse_pulls, sse_pc, es>>

\* line 539
OnOpen ==
    \E frame \in Frame :
        /\ frame.kind = "Open"
        /\ es_next(frame)
        /\ UNCHANGED <<outside_sse, sse_pulls, sse_pc, es, sse_produced>>

\* the Message arm going on to the next frame after data that does not parse
OnMessage_continuing ==
    \E frame \in Frame :
        /\ frame.kind = "Message"
        /\ es_next(frame)
        /\ LET parsed == parse_event(frame.data) IN
           /\ sse_yield(IF is_some(parsed) THEN Ok(unwrap(parsed)) ELSE Err("serde_json"))
           /\ sse_pc' = "es_next"
        /\ UNCHANGED <<outside_sse, sse_pulls, es>>

\* lines 540-542
OnMessage ==
    \E frame \in Frame :
        /\ frame.kind = "Message"
        /\ es_next(frame)
        /\ LET parsed == parse_event(frame.data) IN
           IF is_some(parsed)
             THEN /\ sse_yield(Ok(unwrap(parsed)))
                  /\ sse_pc' = "es_next"
             ELSE /\ sse_yield(Err("serde_json"))
                  /\ sse_pc' = "return"
        /\ UNCHANGED <<outside_sse, sse_pulls, es>>

\* a close that leaves the source as it is
close_noop(source) == source

\* es.close(), line 544
close(source) == "closed"

\* every error taken for the clean end of the stream
is_stream_ended_always(err) == TRUE

\* the match of lines 545-548
is_stream_ended(err) == err = "StreamEnded"

\* lines 543-549
OnErr ==
    \E frame \in Frame :
        /\ frame.kind = "Err"
        /\ es_next(frame)
        /\ es' = close(es)
        /\ IF is_stream_ended(frame.err)
             THEN UNCHANGED sse_produced
             ELSE sse_yield(Err("unexpected error"))
        /\ sse_pc' = "es_next"
        /\ UNCHANGED <<outside_sse, sse_pulls>>

\* line 537: es.next() returns None, the while-let ends the generator
OnEsNone ==
    /\ sse_pc = "es_next"
    /\ sse_polled
    /\ es \in {"open", "closed"}
    /\ sse_pc' = "done"
    /\ UNCHANGED <<outside_sse, sse_pulls, es, sse_produced, frames>>

\* resumed after the error item of a `?`: the generator returns
SseReturn ==
    /\ sse_pc = "return"
    /\ sse_polled
    /\ sse_pc' = "done"
    /\ UNCHANGED <<outside_sse, sse_pulls, es, sse_produced, frames>>

\* the consumer drops the stream at a suspension point
SseDrop ==
    /\ sse_pc \in {"created", "es_next", "return"}
    /\ sse_pc' = "dropped"
    /\ UNCHANGED <<outside_sse, sse_pulls, es, sse_produced, frames>>

SseNext ==
    \/ SsePull
    \/ SseStart
    \/ OnOpen
    \/ OnMessage
    \/ OnErr
    \/ OnEsNone
    \/ SseReturn
    \/ SseDrop

SpecPassthrough == SseInit /\ [][SseNext]_vars

\* ------------------------------------------- CreateMessageRequestBuilder
\* number of setter calls made on one builder
MaxCalls == 4

\* Content (messages.rs 49-54)
Single(string) == [single |-> string]
Multi(parts) == [multi |-> parts]

\* Message::user (messages.rs 40-47)
UserMessage(content) == [role |-> "user", content |-> content]

\* the arguments the setters are called with
SetterArgs ==
    [model |-> {"claude-3-haiku-20240307"},
     messages |-> {<<>>, <<UserMessage(Single("Hi!"))>>},
     max_tokens |-> {0, 100},
     metadata |-> {[user_id |-> Some("u1")]},
     stop_sequences |-> {<<"STOP">>},
     system |-> {"be brief"},
     temperature |-> {1},
     tool_choice |-> {[kind |-> "auto"]},
     tools |-> {<<>>},
     top_k |-> {5},
     top_p |-> {1}]

Fields == DOMAIN SetterArgs

\* CreateMessageRequest::builder(), lines 317-331
NewBuilder == [f \in Fields |-> None]

BuilderInit ==
    /\ StreamIdle
    /\ SseIdle
    /\ DecodeIdle
    /\ ContentIdle
    /\ SubmitIdle
    /\ ConcurrentIdle
    /\ builder = NewBuilder
    /\ calls = <<>>
    /\ build_result = None

\* a setter, lines 335-391: self.f = Some(value); self
set(f, value) ==
    /\ build_result = None
    /\ Len(calls) < MaxCalls
    /\ builder' = [builder EXCEPT ![f] = Some(value)]
    /\ calls' = Append(calls, [setter |-> f, value |-> value])
    /\ UNCHANGED <<outside_builder, build_result>>

SetModel == \E v \in SetterArgs.model : set("model", v)
SetMessages == \E v \in SetterArgs.messages : set("messages", v)
SetMaxTokens == \E v \in SetterArgs.max_tokens : set("max_tokens", v)
SetMetadata == \E v \in SetterArgs.metadata : set("metadata", v)
SetStopSequences == \E v \in SetterArgs.stop_sequences : set("stop_sequences", v)
SetSystem == \E v \in SetterArgs.system : set("system", v)
SetTemperature == \E v \in SetterArgs.temperature : set("temperature", v)
SetToolChoice == \E v \in SetterArgs.tool_choice : set("tool_choice", v)
SetTools == \E v \in SetterArgs.tools : set("tools", v)
SetTopK == \E v \in SetterArgs.top_k : set("top_k", v)
SetTopP == \E v \in SetterArgs.top_p : set("top_p", v)

\* a build that fills a missing max_tokens with a default
build_defaulting(self) ==
    IF is_none(self.model) THEN Err("model is required")
    ELSE IF is_none(self.messages) THEN Err("messages is required")
    ELSE [ok |-> TRUE,
          request |-> [model |-> unwrap(self.model),
                       messages |-> unwrap(self.messages),
                       max_tokens |-> IF is_none(self.max_tokens)
                                        THEN 1024 ELSE unwrap(self.max_tokens),
                       metadata |-> self.metadata,
                       stop_sequences |-> self.stop_sequences,
                       system |-> IF is_none(self.system)
                                    THEN None ELSE Some(Single(unwrap(self.system))),
                       temperature |-> self.temperature,
                       tool_choice |-> self.tool_choice,
                       tools |-> self.tools,
                       top_k |-> self.top_k,
                       top_p |-> self.top_p]]

\* build(), lines 393-411
build(self) ==
    IF is_none(self.model) THEN Err("model is required")
    ELSE IF is_none(self.messages) THEN Err("messages is required")
    ELSE IF is_none(self.max_tokens) THEN Err("max_tokens is required")
    ELSE [ok |-> TRUE,
          request |-> [model |-> unwrap(self.model),
                       messages |-> unwrap(self.messages),
                       max_tokens |-> unwrap(self.max_tokens),
                       metadata |-> self.metadata,
                       stop_sequences |-> self.stop_sequences,
                       system |-> IF is_none(self.system)
                                    THEN None ELSE Some(Single(unwrap(self.system))),
                       temperature |-> self.temperature,
                       tool_choice |-> self.tool_choice,
                       tools |-> self.tools,
                       top_k |-> self.top_k,
                       top_p |-> self.top_p]]

Build ==
    /\ build_result = None
    /\ build_result' = Some(build(builder))
    /\ UNCHANGED <<outside_builder, builder, calls>>

BuilderNext ==
    \/ SetModel
    \/ SetMessages
    \/ SetMaxTokens
    \/ SetMetadata
    \/ SetStopSequences
    \/ SetSystem
    \/ SetTemperature
    \/ SetToolChoice
    \/ SetTools
    \/ SetTopK
    \/ SetTopP
    \/ Build

SpecBuilder == BuilderInit /\ [][BuilderNext]_vars

\* ------------------------------------------------ the non-streaming decoder
\* ErrorDetails (messages.rs 295-300): "type" is read into kind
parse_error_details(j) ==
    IF is_some(string_field(j, "type")) /\ is_some(string_field(j, "message"))
      THEN Some([kind |-> unwrap(string_field(j, "type")),
                 message |-> unwrap(string_field(j, "message"))])
      ELSE None

\* a decoder that knows the MessageResponse only
parse_message_only(j) ==
    IF is_some(parse_message_response(j))
      THEN Some([variant |-> "Message", message |-> unwrap(parse_message_response(j))])
      ELSE None

\* serde_json::from_str::<CreateMessageResponse> (messages.rs 288-293 and 504),
\* tag = "type"
parse_create_message_response(j) ==
    IF is_none(tag_of(j)) THEN None
    ELSE LET tag == unwrap(tag_of(j)) IN
      CASE tag = "message" ->
             IF is_some(parse_message_response(j))
               THEN Some([variant |-> "Message",
                          message |-> unwrap(parse_message_response(j))])
               ELSE None
        [] tag = "error" ->
             IF has(j, "error") /\ is_some(parse_error_details(j.obj["error"]))
               THEN Some([variant |-> "Error",
                          error |-> unwrap(parse_error_details(j.obj["error"]))])
               ELSE None
        [] OTHER -> None

\* content blocks on the wire, with the parts they stand for
PartCases ==
    { [wire |-> JObj([type |-> JStr("text"), text |-> JStr("Hello")]),
       part |-> Text("Hello")],
      [wire |-> JObj([type |-> JStr("tool_use"), id |-> JStr("t1"),
                      name |-> JStr("get_weather"), input |-> JObj([city |-> JStr("Rome")])]),
       part |-> ToolUse("t1", "get_weather", JObj([city |-> JStr("Rome")]))] }

ContentCases ==
    {[wire |-> JArr(<<>>), parts |-> <<>>]}
    \cup {[wire |-> JArr(<<a.wire>>), parts |-> <<a.part>>] : a \in PartCases}
    \cup {[wire |-> JArr(<<a.wire, b.wire>>), parts |-> <<a.part, b.part>>] :
            a \in PartCases, b \in PartCases}

\* the member stop_reason on the wire (absent, null or a reason), with its value
StopReasonCases ==
    {[wire |-> <<>>, value |-> None], [wire |-> [stop_reason |-> JNull], value |-> None]}
    \cup {[wire |-> [stop_reason |-> JStr(r)], value |-> Some(r)] : r \in StopReasons}

\* the member usage on the wire
UsageCases ==
    { [wire |-> JObj([output_tokens |-> JNum(3)]), usage |-> Usage(None, 3)],
      [wire |-> JObj([input_tokens |-> JNum(10), output_tokens |-> JNum(3)]),
       usage |-> Usage(Some(10), 3)] }

\* a body tagged "message" with the message fields
MessageBody(c, r, u) ==
    JObj(r.wire @@ [type |-> JStr("message"), id |-> JStr("1"), model |-> JStr("m"),
                    role |-> JStr("assistant"), content |-> c.wire,
                    stop_sequence |-> JNull, usage |-> u.wire])

ErrorKinds == {"invalid_request_error", "overloaded_error"}
ErrorMessages == {"bad model", "Overloaded"}

\* the error envelope
ErrorBody(kind, message) ==
    JObj([type |-> JStr("error"),
          error |-> JObj([type |-> JStr(kind), message |-> JStr(message)])])

\* bodies that are neither a message nor an error envelope
OtherBodies ==
    { Malformed,
      JNull,
      JStr("message"),
      JArr(<<>>),
      JObj(<<>>),
      JObj([type |-> JStr("completion"), completion |-> JStr("Hello")]),
      JObj([type |-> JNum(1)]),
      JObj([type |-> JStr("message"), id |-> JStr("1")]),
      JObj([type |-> JStr("message"), id |-> JStr("1"), model |-> JStr("m"),
            role |-> JStr("assistant"), content |-> JStr("Hello"),
            usage |-> JObj([output_tokens |-> JNum(3)])]),
      JObj([type |-> JStr("message"), id |-> JStr("1"), model |-> JStr("m"),
            role |-> JStr("assistant"), content |-> JArr(<<>>),
            stop_reason |-> JStr("refusal"),
            usage |-> JObj([output_tokens |-> JNum(3)])]),
      JObj([type |-> JStr("error")]),
      JObj([type |-> JStr("error"), error |-> JStr("bad model")]),
      JObj([type |-> JStr("error"), error |-> JObj([message |-> JStr("bad model")])]),
      JObj([error |-> JObj([type |-> JStr("invalid_request_error"),
                            message |-> JStr("bad model")])]) }

Bodies ==
    {MessageBody(c, r, u) : c \in ContentCases, r \in StopReasonCases, u \in UsageCases}
    \cup {ErrorBody(k, m) : k \in ErrorKinds, m \in ErrorMessages}
    \cup OtherBodies

\* the body has arrived: .text().await succeeded, lines 496-502
DecodeInit ==
    /\ StreamIdle
    /\ SseIdle
    /\ BuilderIdle
    /\ ContentIdle
    /\ SubmitIdle
    /\ ConcurrentIdle
    /\ text \in Bodies
    /\ decoded = None

\* Ok(serde_json::from_str(&text)?), line 504
Decode ==
    /\ decoded = None
    /\ LET parsed == parse_create_message_response(text) IN
       decoded' = Some(IF is_some(parsed)
                         THEN [ok |-> TRUE, response |-> unwrap(parsed)]
                         ELSE Err("serde_json"))
    /\ UNCHANGED <<outside_decode, text>>

DecodeNext == Decode

SpecDecode == DecodeInit /\ [][DecodeNext]_vars

\* --------------------------------------------- Content on the wire and back
\* length of the strings of Content::Single
MaxText == 2
\* number of parts of Content::Multi
MaxParts == 2

SeqsUpTo(S, n) == UNION {[1..k -> S] : k \in 0..n}

\* the characters of the strings: a plain one, the quote, the line feed
Chars == {"H", "\"", "\n"}
Strings == SeqsUpTo(Chars, MaxText)

\* a JSON string given by the text between its quotes, one element for
\* each plain character or escape sequence
JText(raw) == [raw |-> raw]
is_text(j) == DOMAIN j = {"raw"}

\* serde_json, format_escaped_str: the characters that need an escape
escape_char(c) ==
    CASE c = "\"" -> "\\\""
      [] c = "\\" -> "\\\\"
      [] c = "\n" -> "\\n"
      [] OTHER -> c

escape(string) == [i \in 1..Len(string) |-> escape_char(string[i])]

is_escape(u) == u \in {"\\\"", "\\\\", "\\n"}

unescape(u) ==
    CASE u = "\\\"" -> "\""
      [] u = "\\\\" -> "\\"
      [] u = "\\n" -> "\n"
      [] OTHER -> u

\* serde_json, StrRead::parse_str: a string without escapes is borrowed from
\* the input, a string with an escape is copied into the scratch buffer
parse_str(raw) ==
    [borrowed |-> \A i \in 1..Len(raw) : ~is_escape(raw[i]),
     value |-> [i \in 1..Len(raw) |-> unescape(raw[i])]]

\* derive(Serialize) of ContentPart (messages.rs 116-140), tag = "type"
serialize_content_part(part) ==
    CASE part.type = "text" ->
           JObj([type |-> JStr("text"), text |-> JStr(part.text)])
      [] part.type = "text_delta" ->
           JObj([type |-> JStr("text_delta"), text |-> JStr(part.text)])
      [] part.type = "image" ->
           JObj([type |-> JStr("image"),
                 source |-> JObj([type |-> JStr(part.source.kind),
                                  media_type |-> JStr(part.source.media_type),
                                  data |-> JStr(part.source.data)])])
      [] part.type = "tool_result" ->
           JObj([type |-> JStr("tool_result"), tool_use_id |-> JStr(part.tool_use_id),
                 content |-> JStr(part.content)])
      [] part.type = "tool_use" ->
           JObj([type |-> JStr("tool_use"), id |-> JStr(part.id),
                 name |-> JStr(part.name), input |-> part.input])
      [] part.type = "input_json_delta" ->
           JObj([type |-> JStr("input_json_delta"), partial_json |-> JStr(part.partial)])

\* derive(Serialize) of Content (messages.rs 49-54), untagged
serialize_content(c) ==
    IF DOMAIN c = {"single"}
      THEN JText(escape(c.single))
      ELSE JArr([i \in 1..Len(c.multi) |-> serialize_content_part(c.multi[i])])

\* derive(Deserialize) of ContentDeserializeHelper<'a> (messages.rs 78-84),
\* untagged: the variants are tried in order on the buffered value; None takes
\* null, Single(&'a str) takes a borrowed string only, Multi takes an array of
\* parts
deserialize_helper(j) ==
    IF is_null(j) THEN Some([helper |-> "None"])
    ELSE IF is_text(j) /\ parse_str(j.raw).borrowed
      THEN Some([helper |-> "Single", str |-> parse_str(j.raw).value])
    ELSE IF is_some(parse_content_parts(j))
      THEN Some([helper |-> "Multi", parts |-> unwrap(parse_content_parts(j))])
      ELSE None

Value(v) == [ok |-> TRUE, value |-> v]

\* optional_content_deserializer (messages.rs 72-93)
optional_content_deserializer(d) ==
    LET r == deserialize_helper(d) IN
    IF is_none(r) THEN Err("data did not match any variant")
    ELSE CASE unwrap(r).helper = "None" -> Value(None)
           [] unwrap(r).helper = "Multi" -> Value(Some(Multi(unwrap(r).parts)))
           [] unwrap(r).helper = "Single" ->
                IF unwrap(r).str = <<>>
                  THEN Value(None)
                  ELSE Value(Some(Single(unwrap(r).str)))

\* content_deserializer (messages.rs 65-70): unwrap() of None panics
content_deserializer(d) ==
    LET r == optional_content_deserializer(d) IN
    IF ~r.ok THEN r
    ELSE IF is_none(r.value) THEN Err("panicked")
    ELSE Value(unwrap(r.value))

\* derive(Deserialize) of a struct, a member with deserialize_with and no
\* default (messages.rs 35-36 and 208-212): an absent member is an error
deserialize_member(name, member) ==
    IF is_none(member) THEN Err("missing field")
    ELSE IF name = "system" THEN optional_content_deserializer(unwrap(member))
    ELSE content_deserializer(unwrap(member))

\* derive(Serialize) of the member: system is skipped when None
\* (skip_serializing_if, messages.rs 209)
serialize_member(c) == IF is_none(c) THEN None ELSE Some(serialize_content(unwrap(c)))

\* the parts of Content::Multi
Parts ==
    { Text("Hello"),
      TextDelta("Hi"),
      [type |-> "image",
       source |-> [kind |-> "base64", media_type |-> "image/png", data |-> "iVBORw0KGgo="]],
      [type |-> "tool_result", tool_use_id |-> "t1", content |-> "sunny"],
      ToolUse("t1", "get_weather", JObj([city |-> JStr("Rome")])),
      InputJsonDelta("{\"city\":") }

Contents ==
    {Single(str) : str \in Strings} \cup {Multi(ps) : ps \in SeqsUpTo(Parts, MaxParts)}

\* what a JSON string holds between its quotes
RawUnits == {"H", "\\\"", "\\n"}

\* the elements of an incoming array: parts, and values that are no part
WireElements ==
    {serialize_content_part(part) : part \in Parts}
    \cup {JNum(1), JObj([type |-> JStr("audio")])}

\* the member on the wire: absent, or a JSON value
Wires ==
    {None, Some(JNull), Some(JNum(1)), Some(JBool(TRUE)),
     Some(JObj([type |-> JStr("text"), text |-> JStr("Hello")]))}
    \cup {Some(JText(raw)) : raw \in SeqsUpTo(RawUnits, MaxText)}
    \cup {Some(JArr(q)) : q \in SeqsUpTo(WireElements, MaxParts)}

\* a request in memory about to be serialized, or a JSON about to be read
ContentInit ==
    /\ StreamIdle
    /\ SseIdle
    /\ BuilderIdle
    /\ DecodeIdle
    /\ SubmitIdle
    /\ ConcurrentIdle
    /\ content_field \in {"content", "system"}
    /\ content_origin \in {"value", "wire"}
    /\ content_back = None
    /\ IF content_origin = "value"
         THEN /\ content_pc = "value"
              /\ content_value \in
                    IF content_field = "system" THEN Option(Contents)
                                                ELSE {Some(c) : c \in Contents}
              /\ content_wire = None
         ELSE /\ content_pc = "wire"
              /\ content_value = None
              /\ content_wire \in Wires

\* serde_json::to_string of the request, for this member
Serialize ==
    /\ content_pc = "value"
    /\ content_wire' = serialize_member(content_value)
    /\ content_pc' = "wire"
    /\ UNCHANGED <<outside_content, content_field, content_origin, content_value, content_back>>

\* serde_json::from_str::<CreateMessageRequest>, the member system
DeserializeSystem ==
    /\ content_pc = "wire"
    /\ content_field = "system"
    /\ content_back' = Some(deserialize_member("system", content_wire))
    /\ content_pc' = "done"
    /\ UNCHANGED <<outside_content, content_field, content_origin, content_value, content_wire>>

\* serde_json::from_str::<Message>, the member content
DeserializeContent ==
    /\ content_pc = "wire"
    /\ content_field = "content"
    /\ content_back' = Some(deserialize_member("content", content_wire))
    /\ content_pc' = "done"
    /\ UNCHANGED <<outside_content, content_field, content_origin, content_value, content_wire>>

ContentNext ==
    \/ Serialize
    \/ DeserializeSystem
    \/ DeserializeContent

SpecContent == ContentInit /\ [][ContentNext]_vars

\* -------------------------------------------------- submitting a request
Backends == {"anthropic", "vertexai", "bedrock"}

\* the parts of the requests submitted
SubmitParts ==
    {part \in Parts : part.type \in {"text", "text_delta", "tool_use", "input_json_delta"}}

SubmitContents ==
    {Single(<<"H">>)} \cup {Multi(ps) : ps \in SeqsUpTo(SubmitParts, MaxParts)}

\* requests of one user message, with or without a system prompt
Requests ==
    {[model |-> "m", messages |-> <<UserMessage(c)>>, max_tokens |-> 100, system |-> sys] :
        c \in SubmitContents, sys \in Option(SubmitContents)}

SubmitInit ==
    /\ StreamIdle
    /\ SseIdle
    /\ BuilderIdle
    /\ DecodeIdle
    /\ ContentIdle
    /\ ConcurrentIdle
    /\ backend \in Backends
    /\ stream \in BOOLEAN
    /\ request \in Requests
    /\ submit_pc = "called"
    /\ prepared = "none"
    /\ sent = <<>>

\* the transport is called with a request
send(payload) ==
    /\ sent' = Append(sent, payload)
    /\ submit_pc' = "sent"

\* .json(body): derive(Serialize) of CreateMessageRequestWithStream
\* (messages.rs 197-233) and of VertexAiCreateMessageRequest (vertexai.rs 115-136)
json(req, streaming) ==
    [messages |-> [i \in 1..Len(req.messages) |->
                     [role |-> req.messages[i].role,
                      content |-> serialize_content(req.messages[i].content)]],
     system |-> serialize_member(req.system),
     stream |-> streaming]

\* request_builder(..).await? (messages.rs 485-494 and 519-528): an Err is
\* returned to the caller at once
returns_early_never(result) == FALSE

returns_early(result) == result = "err"

\* messages() and messages_stream() of a Requester after request_builder
\* returned: the failure is returned, or the request goes to the transport
\* (messages.rs 496-498, 536)
submit(result, payload) ==
    /\ prepared' = result
    /\ IF returns_early(result)
         THEN /\ submit_pc' = "failed"
              /\ UNCHANGED sent
         ELSE send(payload)

\* Requester for Anthropic (anthropic.rs 131-147): building the request with
\* its headers and body can fail (.json(body)? at 146)
AnthropicSend ==
    /\ submit_pc = "called"
    /\ backend = "anthropic"
    /\ \E built \in BOOLEAN :
          submit(IF built THEN "ok" ELSE "err", json(request, stream))
    /\ UNCHANGED <<outside_submit, backend, stream, request>>

\* Requester for AnthropicVertexAi (vertexai.rs 183-205): the token fetch
\* (197-201) and building the request (.json(..)? at 204) can fail
VertexAiSend ==
    /\ submit_pc = "called"
    /\ backend = "vertexai"
    /\ \E token \in BOOLEAN, built \in BOOLEAN :
          submit(IF token /\ built THEN "ok" ELSE "err", json(request, stream))
    /\ UNCHANGED <<outside_submit, backend, stream, request>>

\* the match on a part of a message (bedrock.rs 151-211 and 384-434)
content_block(part, streaming) ==
    CASE part.type = "text" -> [block |-> "Text", text |-> part.text]
      [] part.type = "image" ->
           [block |-> "Image", format |-> part.source.media_type, bytes |-> part.source.data]
      [] part.type = "tool_result" ->
           [block |-> "ToolResult", tool_use_id |-> part.tool_use_id, content |-> part.content]
      [] part.type = "tool_use" ->
           [block |-> "ToolUse", tool_use_id |-> part.id, name |-> part.name,
            input |-> IF streaming THEN [document |-> part.input]
                                   ELSE [string |-> part.input]]

\* InputJsonDelta and TextDelta are unreachable!() (bedrock.rs 207-210, 430-433)
is_unreachable(part) == part.type \in {"input_json_delta", "text_delta"}

\* the content of a message (bedrock.rs 148-213 and 381-436)
message_content(c, streaming) ==
    IF DOMAIN c = {"single"}
      THEN <<[block |-> "Text", text |-> c.single]>>
      ELSE [i \in 1..Len(c.multi) |-> content_block(c.multi[i], streaming)]

\* the system prompt (bedrock.rs 219-236 and 442-459): filter_map keeps Text
system_content(c) ==
    IF DOMAIN c = {"single"}
      THEN <<[block |-> "SystemText", text |-> c.single]>>
      ELSE LET kept == SelectSeq(c.multi, LAMBDA part : part.type = "text")
           IN  [i \in 1..Len(kept) |-> [block |-> "SystemText", text |-> kept[i].text]]

\* AnthropicBedrock::messages and messages_stream up to bd_request.send()
\* (bedrock.rs 94-252 and 328-474)
BedrockSend ==
    /\ submit_pc = "called"
    /\ backend = "bedrock"
    /\ IF \E i \in 1..Len(request.messages) :
             /\ DOMAIN request.messages[i].content = {"multi"}
             /\ \E k \in 1..Len(request.messages[i].content.multi) :
                   is_unreachable(request.messages[i].content.multi[k])
         THEN /\ submit_pc' = "panicked"
              /\ UNCHANGED sent
         ELSE send([model_id |-> request.model,
                    messages |-> [i \in 1..Len(request.messages) |->
                                    [role |-> request.messages[i].role,
                                     content |-> message_content(request.messages[i].content,
                                                                 stream)]],
                    system |-> IF is_none(request.system) THEN None
                               ELSE Some(system_content(unwrap(request.system)))])
    /\ UNCHANGED <<outside_submit, backend, stream, request, prepared>>

SubmitNext ==
    \/ AnthropicSend
    \/ VertexAiSend
    \/ BedrockSend

SpecSubmit == SubmitInit /\ [][SubmitNext]_vars

\* ------------------------------------------------------ concurrent streams
\* number of streams running at once
MaxStreams == 2
\* number of native events each of them receives
MaxEach == 2

StreamIds == 1..MaxStreams

\* the native events of the concurrent streams: the ones that read or write
\* the bookkeeping
ConcurrentEvents ==
    {ev \in NativeEvent :
        \/ ev.kind = "ContentBlockDelta" /\ ev.content_block_index = 0
                                         /\ ev.delta = Some([kind |-> "Text", text |-> "Hi"])
        \/ ev.kind = "ContentBlockStart" /\ ev.content_block_index = 0 /\ is_none(ev.start)
        \/ ev.kind = "MessageStop" /\ ev.stop_reason \in {"EndTurn", "ToolUse"}
        \/ ev.kind = "Metadata" /\ is_some(ev.usage)}

\* lines 479-480: let mut event_message_delta = None; let mut block_starts = HashSet::new()
NewLocal == [event_message_delta |-> None, block_starts |-> {}]

\* one cell of bookkeeping for all the streams
cell_shared(i) == 1

\* the locals of a generator belong to that generator
cell_of(i) == i

\* the body of the loop, lines 497-585, for one native event: the items it
\* yields, the bookkeeping it leaves and whether it panics
handle(local, ev) ==
    LET index == ev.content_block_index
        announced == [local EXCEPT !.block_starts = @ \cup {index}]
    IN
    CASE ev.kind = "ContentBlockDelta" ->
           [items |-> (IF ~contains(local.block_starts, index)
                         THEN <<Ok(ContentBlockStart(index, Text("")))>> ELSE <<>>)
                      \o (IF is_none(delta_part(ev)) THEN <<>>
                          ELSE <<Ok(ContentBlockDelta(index, unwrap(delta_part(ev))))>>),
            local |-> announced,
            panicked |-> is_none(delta_part(ev))]
      [] ev.kind = "ContentBlockStart" ->
           [items |-> IF is_none(start_part(ev)) THEN <<>>
                      ELSE <<Ok(ContentBlockStart(index, unwrap(start_part(ev))))>>,
            local |-> announced,
            panicked |-> is_none(start_part(ev))]
      [] ev.kind = "ContentBlockStop" ->
           [items |-> <<Ok(ContentBlockStop(index))>>, local |-> local, panicked |-> FALSE]
      [] ev.kind = "MessageStart" ->
           [items |-> <<>>, local |-> local, panicked |-> FALSE]
      [] ev.kind = "MessageStop" ->
           IF is_some(local.event_message_delta)
             THEN [items |-> <<Err("duplicated message delta")>>, local |-> local,
                   panicked |-> FALSE]
             ELSE IF is_none(stop_reason_of(ev.stop_reason))
               THEN [items |-> <<>>, local |-> local, panicked |-> TRUE]
               ELSE [items |-> <<>>,
                     local |-> [local EXCEPT !.event_message_delta =
                                   Some(EventMessageDelta(unwrap(stop_reason_of(ev.stop_reason))))],
                     panicked |-> FALSE]
      [] ev.kind = "Metadata" ->
           IF is_none(local.event_message_delta)
             THEN [items |-> <<Err("no message delta")>>, local |-> local, panicked |-> FALSE]
             ELSE IF is_none(ev.usage)
               THEN [items |-> <<>>, local |-> local, panicked |-> TRUE]
               ELSE [items |-> <<Ok(MessageDelta(unwrap(local.event_message_delta),
                                     Usage(Some(unwrap(ev.usage).input_tokens),
                                           unwrap(ev.usage).output_tokens))),
                                 Ok(MessageStop)>>,
                     local |-> [local EXCEPT !.event_message_delta = take(@)],
                     panicked |-> FALSE]
      [] OTHER -> [items |-> <<>>, local |-> local, panicked |-> TRUE]

\* the streams have been returned by messages_stream and not polled yet
ConcurrentInit ==
    /\ StreamIdle
    /\ SseIdle
    /\ BuilderIdle
    /\ DecodeIdle
    /\ ContentIdle
    /\ SubmitIdle
    /\ locals = [c \in StreamIds |-> NewLocal]
    /\ outputs = [i \in StreamIds |-> [pc |-> "created", received |-> <<>>, produced |-> <<>>]]

\* the first poll of a stream, lines 477-493
ConcurrentStart ==
    \E i \in StreamIds :
        /\ outputs[i].pc = "created"
        /\ locals' = [locals EXCEPT ![cell_of(i)] = NewLocal]
        /\ outputs' = [outputs EXCEPT
                         ![i].pc = "recv",
                         ![i].produced =
                            <<Ok(MessageStart(MessageResponse("req_1", RequestModel)))>>]
        /\ UNCHANGED outside_concurrent

\* a stream receives a native event and handles it, lines 496-585
ConcurrentRecv ==
    \E i \in StreamIds, ev \in ConcurrentEvents :
        /\ outputs[i].pc = "recv"
        /\ Len(outputs[i].received) < MaxEach
        /\ LET h == handle(locals[cell_of(i)], ev) IN
           /\ locals' = [locals EXCEPT ![cell_of(i)] = h.local]
           /\ outputs' = [outputs EXCEPT
                            ![i].pc = IF h.panicked THEN "panicked" ELSE "recv",
                            ![i].received = Append(@, ev),
                            ![i].produced = @ \o h.items]
        /\ UNCHANGED outside_concurrent

\* the native channel of a stream ends or fails, line 496
ConcurrentEnd ==
    \E i \in StreamIds :
        /\ outputs[i].pc = "recv"
        /\ outputs' = [outputs EXCEPT ![i].pc = "done"]
        /\ UNCHANGED <<outside_concurrent, locals>>

ConcurrentNext ==
    \/ ConcurrentStart
    \/ ConcurrentRecv
    \/ ConcurrentEnd

SpecConcurrent == ConcurrentInit /\ [][ConcurrentNext]_vars

\* ------------------------------------------------------- the two adapters
\* a stream of either adapter
AdaptersInit == Init \/ SseInit
AdaptersNext == Next \/ SseNext
SpecAdapters == AdaptersInit /\ [][AdaptersNext]_vars

\* ------------------------------------------------- reading the histories
Positions == 1..Len(produced)
Arrivals == 1..Len(received)

IsEvent(item, type) == item.ok /\ item.event.type = type
IsError(item) == ~item.ok

\* the items the k-th native event has caused so far
ItemsOf(k) ==
    SubSeq(produced, received[k].at + 1,
           IF k < Len(received) THEN received[k + 1].at ELSE Len(produced))

\* the stop reason staged right after the k-th native event was handled
StagedAfter(k) ==
    IF k < Len(received) THEN received[k + 1].staged ELSE event_message_delta

\* the consumer has polled the stream at least once
Polled == pc # "created" /\ ~(pc = "dropped" /\ produced = <<>>)

NativeKind(k) == received[k].event.kind

\* C1: a native sequence that ends cleanly and yields no error item produces
\* a sequence that starts with MessageStart, ends with MessageStop and holds
\* exactly one MessageDelta, placed right before that final MessageStop.
C1_CleanStreamLifecycle ==
    (pc = "done" /\ s = "ended" /\ \A k \in Positions : ~IsError(produced[k]))
    => /\ Len(produced) >= 3
       /\ IsEvent(produced[1], "message_start")
       /\ produced[Len(produced)] = Ok(MessageStop)
       /\ IsEvent(produced[Len(produced) - 1], "message_delta")
       /\ Cardinality({k \in Positions : IsEvent(produced[k], "message_delta")}) = 1

\* C2: every polled stream has produced exactly one MessageStart; it is the
\* first item, precedes the consumption of any native event, has an empty
\* content list and output_tokens = 0, and a native message-start signal
\* produces no item.
C2_OneMessageStartFirst ==
    Polled
    => /\ Len(produced) >= 1
       /\ IsEvent(produced[1], "message_start")
       /\ produced[1].event.message.content = <<>>
       /\ produced[1].event.message.usage.output_tokens = 0
       /\ {k \in Positions : IsEvent(produced[k], "message_start")} = {1}
       /\ \A k \in Arrivals : received[k].at >= 1
       /\ \A k \in Arrivals : NativeKind(k) = "MessageStart" => ItemsOf(k) = <<>>

\* C3: every ContentBlockDelta{index} is preceded by a ContentBlockStart with
\* the same index, and a native block delta for an index without an earlier
\* native block start has a synthesized ContentBlockStart{index} with an
\* empty text block strictly before its ContentBlockDelta.
C3_DeltaAfterStart ==
    /\ \A k \in Positions :
          IsEvent(produced[k], "content_block_delta")
          => \E j \in 1..(k - 1) :
                /\ IsEvent(produced[j], "content_block_start")
                /\ produced[j].event.index = produced[k].event.index
    /\ \A k \in Arrivals :
          (/\ NativeKind(k) = "ContentBlockDelta"
           /\ \A j \in 1..(k - 1) :
                 ~(/\ NativeKind(j) = "ContentBlockStart"
                   /\ received[j].event.content_block_index
                        = received[k].event.content_block_index))
          => \E j \in 1..(received[k].at + 1) :
                /\ j <= Len(produced)
                /\ produced[j] = Ok(ContentBlockStart(
                                       received[k].event.content_block_index, Text("")))
                /\ \A m \in 1..j : ~IsEvent(produced[m], "content_block_delta")
                                   \/ produced[m].event.index
                                        # received[k].event.content_block_index

\* a delta was emitted for an index the native stream never started
C3_Witness ==
    /\ \A k \in Arrivals : NativeKind(k) # "ContentBlockStart"
    /\ \E k \in Positions :
          /\ IsEvent(produced[k], "content_block_delta")
          /\ produced[k - 1] = Ok(ContentBlockStart(produced[k].event.index, Text("")))

\* C4: every ContentBlockStop{index} is preceded by a ContentBlockStart with
\* the same index.
C4_StopAfterStart ==
    \A k \in Positions :
        IsEvent(produced[k], "content_block_stop")
        => \E j \in 1..(k - 1) :
              /\ IsEvent(produced[j], "content_block_start")
              /\ produced[j].event.index = produced[k].event.index

\* C5: once two native message-stop signals have arrived, the stream holds
\* exactly one error item and nothing is produced after it.
C5_OneErrorThenSilence ==
    Cardinality({k \in Arrivals : NativeKind(k) = "MessageStop"}) >= 2
    => /\ Cardinality({k \in Positions : IsError(produced[k])}) = 1
       /\ IsError(produced[Len(produced)])

\* C6: every native message-stop after the first one of the stream yields a
\* duplicated-terminal-signal error, whether or not a metadata signal came
\* in between.
C6_SecondStopIsError ==
    \A k \in Arrivals :
        (/\ NativeKind(k) = "MessageStop"
         /\ \E j \in 1..(k - 1) : NativeKind(j) = "MessageStop")
        => ItemsOf(k) = <<Err("duplicated message delta")>>

\* C7: a native metadata signal that arrives while no stop reason is staged
\* yields the missing-stop-reason error and nothing else: no MessageDelta
\* and no MessageStop.
C7_MetadataWithoutStopReason ==
    \A k \in Arrivals :
        (NativeKind(k) = "Metadata" /\ is_none(received[k].staged))
        => /\ ItemsOf(k) = <<Err("no message delta")>>
           /\ (k = Len(received) => pc \in {"recv", "done", "dropped"})

\* a metadata signal arrived with nothing staged
C7_Witness ==
    \E k \in Arrivals :
        /\ NativeKind(k) = "Metadata"
        /\ is_none(received[k].staged)
        /\ IsError(produced[received[k].at + 1])

\* C8: a native metadata signal with usage that arrives while a stop reason
\* is staged emits MessageDelta with the staged stop reason and the
\* metadata's token counts, then MessageStop with nothing in between, and
\* leaves nothing staged.
C8_MetadataEmitsDeltaThenStop ==
    \A k \in Arrivals :
        (/\ NativeKind(k) = "Metadata"
         /\ is_some(received[k].event.usage)
         /\ is_some(received[k].staged))
        => LET u == unwrap(received[k].event.usage)
               delta == Ok(MessageDelta(unwrap(received[k].staged),
                                        Usage(Some(u.input_tokens), u.output_tokens)))
           IN  /\ \/ ItemsOf(k) = <<delta, Ok(MessageStop)>>
                  \/ /\ ItemsOf(k) = <<delta>>
                     /\ k = Len(received)
                     /\ pc \in {"yield_message_stop", "dropped"}
               /\ is_none(StagedAfter(k))

\* the MessageDelta and the MessageStop of a metadata signal were both emitted
C8_Witness ==
    \E k \in Arrivals :
        /\ NativeKind(k) = "Metadata"
        /\ is_some(received[k].staged)
        /\ Len(ItemsOf(k)) = 2
        /\ ItemsOf(k)[1].event.delta.stop_reason = "tool_use"
        /\ ItemsOf(k)[2] = Ok(MessageStop)

\* C9: once a stop reason has been staged, the produced stream does not end
\* before a MessageDelta with that stop reason, or an error item, has been
\* emitted.
C9_StagedStopReasonIsDelivered ==
    \A k \in Arrivals :
        (/\ pc = "done"
         /\ NativeKind(k) = "MessageStop"
         /\ is_none(received[k].staged)
         /\ is_some(StagedAfter(k)))
        => \E j \in (received[k].at + 1)..Len(produced) :
              \/ IsError(produced[j])
              \/ /\ IsEvent(produced[j], "message_delta")
                 /\ produced[j].event.delta = unwrap(StagedAfter(k))

\* C10: a native event of an unrecognised kind is reported as an error item
\* of the stream; the generator does not abort.
C10_UnrecognizedIsErrorItem ==
    \A k \in Arrivals :
        NativeKind(k) = "Unknown"
        => /\ pc # "panicked"
           /\ Len(ItemsOf(k)) >= 1
           /\ IsError(ItemsOf(k)[1])

\* C11: when receiving from the native channel fails, the produced stream
\* does not end silently: its last item is an error item.
C11_TransportFailureIsReported ==
    (pc = "done" /\ s = "failed")
    => /\ produced # <<>>
       /\ IsError(produced[Len(produced)])

\* ------------------------------------- the passthrough adapter's histories
SsePositions == 1..Len(sse_produced)
FrameArrivals == 1..Len(frames)

\* the items the k-th frame has caused so far
SseItemsOf(k) ==
    SubSeq(sse_produced, frames[k].at + 1,
           IF k < Len(frames) THEN frames[k + 1].at ELSE Len(sse_produced))

FrameKind(k) == frames[k].frame.kind

\* the k-th frame is a Message frame whose data parses as an Event
Parses(k) == FrameKind(k) = "Message" /\ is_some(parse_event(frames[k].frame.data))

\* the Message frames received so far whose data parses, in arrival order
ParsedFrames == SelectSeq(frames, LAMBDA f : f.frame.kind = "Message"
                                            /\ is_some(parse_event(f.frame.data)))

\* C12: an Open frame produces no item and a Message frame whose data parses
\* as an Event produces exactly that Event; the events produced are those of
\* the parsing frames, in arrival order, none added, dropped or reordered.
C12_PassthroughInOrder ==
    /\ \A k \in FrameArrivals : FrameKind(k) = "Open" => SseItemsOf(k) = <<>>
    /\ \A k \in FrameArrivals :
          Parses(k) => SseItemsOf(k) = <<Ok(unwrap(parse_event(frames[k].frame.data)))>>
    /\ SelectSeq(sse_produced, LAMBDA item : item.ok)
         = [i \in 1..Len(ParsedFrames) |->
               Ok(unwrap(parse_event(ParsedFrames[i].frame.data)))]
    /\ \A k \in FrameArrivals :
          (FrameKind(k) = "Message"
           /\ frames[k].frame.data = JObj([type |-> JStr("content_block_stop"),
                                           index |-> JNum(0)]))
          => SseItemsOf(k) = <<Ok(ContentBlockStop(0))>>

\* an Open frame and two different events, produced in arrival order
C12_Witness ==
    /\ Len(frames) = 3
    /\ FrameKind(1) = "Message"
    /\ FrameKind(2) = "Open"
    /\ FrameKind(3) = "Message"
    /\ sse_produced = <<Ok(ContentBlockDelta(0, TextDelta("Hi"))), Ok(ContentBlockStop(0))>>

\* C13: when the event source reports StreamEnded the adapter closes the
\* source, consumes no further frame and produces nothing for it; the
\* produced sequence holds no error item.
C13_StreamEndedIsClean ==
    \A k \in FrameArrivals :
        (FrameKind(k) = "Err" /\ frames[k].frame.err = "StreamEnded")
        => /\ es = "closed"
           /\ k = Len(frames)
           /\ SseItemsOf(k) = <<>>
           /\ \A j \in SsePositions : sse_produced[j].ok
           /\ sse_pc \in {"es_next", "done", "dropped"}

\* the stream ended cleanly after an event, with frames still to come
C13_Witness ==
    /\ Len(frames) = 2
    /\ FrameKind(2) = "Err"
    /\ frames[2].frame.err = "StreamEnded"
    /\ sse_pc = "done"
    /\ sse_produced = <<Ok(MessageStop)>>

\* C14: when the event source reports any other error the adapter closes the
\* source and produces exactly one error item for it; that item is the only
\* error and the last item of the stream.
C14_TransportErrorIsOneItem ==
    \A k \in FrameArrivals :
        (FrameKind(k) = "Err" /\ frames[k].frame.err # "StreamEnded")
        => /\ es = "closed"
           /\ k = Len(frames)
           /\ SseItemsOf(k) = <<Err("unexpected error")>>
           /\ Cardinality({j \in SsePositions : ~sse_produced[j].ok}) = 1
           /\ ~sse_produced[Len(sse_produced)].ok
           /\ sse_pc \in {"es_next", "done", "dropped"}

\* a transport error after an event, with frames still to come
C14_Witness ==
    /\ Len(frames) = 2
    /\ FrameKind(2) = "Err"
    /\ frames[2].frame.err = "Transport"
    /\ sse_pc = "done"
    /\ sse_produced = <<Ok(MessageStop), Err("unexpected error")>>

\* ------------------------------------------------- the builder's history
\* the setter f was called
WasSet(f) == \E i \in 1..Len(calls) : calls[i].setter = f

\* the argument of the last call of the setter f
LastGiven(f) ==
    LET last == CHOOSE i \in 1..Len(calls) :
                    /\ calls[i].setter = f
                    /\ \A j \in (i + 1)..Len(calls) : calls[j].setter # f
    IN  calls[last].value

Built == is_some(build_result)
BuildResult == unwrap(build_result)

\* C15: build() fails exactly when model, messages or max_tokens was never
\* set; otherwise every field of the request is the last value given to its
\* setter (system wrapped as Content::Single) and the optional fields never
\* set are absent; nothing is handed to the transport.
C15_BuildValidatesRequired ==
    Built
    => /\ ~BuildResult.ok <=> (~WasSet("model") \/ ~WasSet("messages") \/ ~WasSet("max_tokens"))
       /\ BuildResult.ok
          => /\ \A f \in {"model", "messages", "max_tokens"} :
                   BuildResult.request[f] = LastGiven(f)
             /\ \A f \in Fields \ {"model", "messages", "max_tokens", "system"} :
                   BuildResult.request[f] = IF WasSet(f) THEN Some(LastGiven(f)) ELSE None
             /\ BuildResult.request.system
                   = IF WasSet("system") THEN Some(Single(LastGiven("system"))) ELSE None
       /\ sent = <<>>

\* a request built after max_tokens was given twice, with system set and
\* nothing else
C15_Witness ==
    /\ Built
    /\ BuildResult.ok
    /\ Len(calls) = 4
    /\ calls[1].setter = "max_tokens" /\ calls[1].value = 0
    /\ calls[4].setter = "max_tokens" /\ calls[4].value = 100
    /\ BuildResult.request.max_tokens = 100
    /\ BuildResult.request.top_k = None

\* C16: every request build() returns has a non-empty messages list and
\* max_tokens > 0.
C16_BuiltRequestIsValid ==
    (Built /\ BuildResult.ok)
    => /\ Len(BuildResult.request.messages) > 0
       /\ BuildResult.request.max_tokens > 0

\* ------------------------------------------------- the decoder's results
Decoded == is_some(decoded)
DecodeResult == unwrap(decoded)

Back == unwrap(content_back)
WireOf(ps) == JArr([i \in 1..Len(ps) |-> serialize_content_part(ps[i])])
NotPresentWires == {None, Some(JNull), Some(JText(<<>>))}

\* C18: read as the optional member system, a non-empty bare string gives
\* Content::Single of that string, a non-empty array of parts gives
\* Content::Multi of those parts in order, an empty string or an absent or
\* null member gives "not present", and nothing else gives "not present".
C18_ContentDeserialization ==
    (content_pc = "done" /\ content_field = "system")
    => /\ \A str \in Strings \ {<<>>} :
             content_wire = Some(JText(escape(str))) => Back = Value(Some(Single(str)))
       /\ \A ps \in SeqsUpTo(Parts, MaxParts) \ {<<>>} :
             content_wire = Some(WireOf(ps)) => Back = Value(Some(Multi(ps)))
       /\ content_wire \in NotPresentWires => Back = Value(None)
       /\ Back = Value(None) => content_wire \in NotPresentWires

\* C19: a Content::Single(s), and a Content::Multi(parts) with at least one
\* part, serialized and deserialized again is the same value, read as
\* Message::content or as CreateMessageRequest::system.
C19_ContentRoundTrip ==
    (/\ content_pc = "done"
     /\ content_origin = "value"
     /\ is_some(content_value)
     /\ unwrap(content_value) # Multi(<<>>))
    => Back = Value(IF content_field = "system" THEN content_value
                                                ELSE unwrap(content_value))

\* ------------------------------------------------- the requests submitted
\* a part that is not valid in a request
NotForRequest(part) == part.type \in {"text_delta", "input_json_delta"}

HasNotForRequest(c) ==
    /\ DOMAIN c = {"multi"}
    /\ \E k \in 1..Len(c.multi) : NotForRequest(c.multi[k])

\* the request holds such a part, in a message or in the system prompt
CarriesNotForRequest(req) ==
    \/ \E i \in 1..Len(req.messages) : HasNotForRequest(req.messages[i].content)
    \/ is_some(req.system) /\ HasNotForRequest(unwrap(req.system))

\* C20: a request that holds a TextDelta or an InputJsonDelta, in a message
\* or in the system prompt, is never handed to the transport, on any backend.
C20_InvalidPartFailsFast ==
    (submit_pc # "idle" /\ CarriesNotForRequest(request)) => sent = <<>>

\* ----------------------------------------- the order of the produced items
\* the kinds of items a native event of a kind causes, in their order
Caused(kind) ==
    CASE kind = "ContentBlockDelta" ->
           {<<"content_block_start", "content_block_delta">>, <<"content_block_delta">>}
      [] kind = "ContentBlockStart" -> {<<"content_block_start">>}
      [] kind = "ContentBlockStop" -> {<<"content_block_stop">>}
      [] kind = "MessageStart" -> {<<>>}
      [] kind = "MessageStop" -> {<<>>, <<"error">>}
      [] kind = "Metadata" -> {<<"error">>, <<"message_delta", "message_stop">>}
      [] OTHER -> {<<>>}

TypeOf(item) == IF item.ok THEN item.event.type ELSE "error"
TypesOf(items) == [i \in 1..Len(items) |-> TypeOf(items[i])]
IsPrefix(p, q) == Len(p) <= Len(q) /\ p = SubSeq(q, 1, Len(p))

\* the k-th native event has been handled to its end
Handled(k) == k < Len(received) \/ pc \in {"recv", "done"}

\* C21: the items are produced in the order of the native events that caused
\* them, the items of one native event being contiguous; the native events
\* of a whole turn (message start, delta for block 0, stop of block 0, stop
\* reason, usage) produce exactly MessageStart, ContentBlockStart{0},
\* ContentBlockDelta{0}, ContentBlockStop{0}, MessageDelta, MessageStop.
C21_OrderOfNativeEvents ==
    /\ \A k \in Arrivals :
          /\ 1 <= received[k].at
          /\ received[k].at <= Len(produced)
          /\ k < Len(received) => received[k].at <= received[k + 1].at
          /\ IF Handled(k)
               THEN TypesOf(ItemsOf(k)) \in Caused(NativeKind(k))
               ELSE \E q \in Caused(NativeKind(k)) : IsPrefix(TypesOf(ItemsOf(k)), q)
    /\ (Events = WholeTurn /\ pc \in {"recv", "done"})
       => produced
            = << Ok(MessageStart(MessageResponse(unwrap(request_id), RequestModel))),
                 Ok(ContentBlockStart(0, Text(""))),
                 Ok(ContentBlockDelta(0, TextDelta("Hi"))),
                 Ok(ContentBlockStop(0)),
                 Ok(MessageDelta(EventMessageDelta("end_turn"), Usage(Some(5), 2))),
                 Ok(MessageStop) >>

\* the whole turn was received and the stream has ended
C21_Witness ==
    /\ Events = WholeTurn
    /\ pc = "done"
    /\ s = "ended"
    /\ Len(produced) = 6

\* C22: a native block start for index i yields one ContentBlockStart{i}
\* whose content block is ToolUse{id, name, input = the empty object} for a
\* tool-use payload, and an empty text block for an absent payload or a
\* payload of any other kind.
C22_BlockStartContent ==
    \A k \in Arrivals :
        (NativeKind(k) = "ContentBlockStart" /\ Handled(k))
        => LET ev == received[k].event IN
           ItemsOf(k)
             = IF is_some(ev.start) /\ unwrap(ev.start).kind = "ToolUse"
                 THEN <<Ok(ContentBlockStart(ev.content_block_index,
                              ToolUse(unwrap(ev.start).tool_use_id, unwrap(ev.start).name,
                                      JObj(<<>>))))>>
                 ELSE <<Ok(ContentBlockStart(ev.content_block_index, Text("")))>>

\* ------------------------------------------------- a stream run on its own
RECURSIVE AloneAfter(_, _)
\* the generator after the first k of the native events, run alone
AloneAfter(evs, k) ==
    IF k = 0
      THEN [local |-> NewLocal, panicked |-> FALSE,
            produced |-> <<Ok(MessageStart(MessageResponse("req_1", RequestModel)))>>]
      ELSE LET before == AloneAfter(evs, k - 1)
               h == handle(before.local, evs[k])
           IN  IF before.panicked THEN before
               ELSE [local |-> h.local, panicked |-> h.panicked,
                     produced |-> before.produced \o h.items]

Alone(evs) == AloneAfter(evs, Len(evs))

\* C23: whatever the interleaving of two concurrent streams, each one has
\* produced what it produces when run alone on the native events it received.
C23_StreamsShareNothing ==
    \A i \in StreamIds :
        outputs[i].pc # "created"
        => outputs[i].produced = Alone(outputs[i].received).produced

\* two streams have each staged their own stop reason and delivered it
C23_Witness ==
    /\ outputs[1].received = <<[kind |-> "MessageStop", stop_reason |-> "EndTurn"],
                               [kind |-> "Metadata",
                                usage |-> Some([input_tokens |-> 5, output_tokens |-> 2])]>>
    /\ outputs[2].received = <<[kind |-> "MessageStop", stop_reason |-> "ToolUse"],
                               [kind |-> "Metadata",
                                usage |-> Some([input_tokens |-> 5, output_tokens |-> 2])]>>
    /\ outputs[1].produced[2].event.delta.stop_reason = "end_turn"
    /\ outputs[2].produced[2].event.delta.stop_reason = "tool_use"

\* ------------------------------------------------------ the consumer's pulls
\* every native event before the last has caused all its items
EarlierHandled ==
    \A k \in 1..(Len(received) - 1) : TypesOf(ItemsOf(k)) \in Caused(NativeKind(k))

\* C24: both adapters consume a native frame only while an item the consumer
\* asked for is outstanding, and only after the items of the earlier frames
\* have all been handed over; they produce at most the item asked for; once
\* the consumer has dropped the stream, no frame is consumed and no item is
\* produced.
C24_PullDriven ==
    [][/\ received' # received
          => /\ pulls > Len(produced)
             /\ EarlierHandled'
       /\ produced' # produced
          => /\ pulls > Len(produced)
             /\ Len(produced') = Len(produced) + 1
       /\ pc = "dropped" => UNCHANGED <<received, produced>>
       /\ frames' # frames => sse_pulls > Len(sse_produced)
       /\ sse_produced' # sse_produced
          => /\ sse_pulls > Len(sse_produced)
             /\ Len(sse_produced') = Len(sse_produced) + 1
       /\ sse_pc = "dropped" => UNCHANGED <<frames, sse_produced>>]_vars

\* the reconstruction generator waits in the middle of a native event for
\* the consumer to ask for the next item
C24_Witness ==
    /\ pc = "yield_content_block_delta"
    /\ Len(received) = 2
    /\ pulls = Len(produced)

\* ------------------------------------------------- preparing the request
Requesters == {"anthropic", "vertexai"}

\* C25: for every Requester, when request_builder fails, the call returns
\* that failure and nothing has been handed to the transport; the transport
\* is given a request only after request_builder succeeded.
C25_PreparationBeforeTransport ==
    backend \in Requesters =>
       /\ prepared = "err" => (submit_pc = "failed" /\ sent = <<>>)
       /\ sent # <<>> => prepared = "ok"
       /\ submit_pc = "called" => (prepared = "none" /\ sent = <<>>)

\* the credential fetch of the Vertex AI requester failed
C25_Witness ==
    /\ backend = "vertexai"
    /\ prepared = "err"
    /\ submit_pc = "failed"

\* ------------------------------------------------------ announced indices
\* the positions of the ContentBlockStart items
StartPositions == {p \in Positions : IsEvent(produced[p], "content_block_start")}

\* the indices a ContentBlockStart has been emitted for
StartedIndices == {produced[p].event.index : p \in StartPositions}

\* C26: a produced sequence never holds two ContentBlockStart events with the
\* same index, whether the native stream sent a delta and then a start for
\* the index, or two starts for it.
C26_OneStartPerIndex ==
    \A p \in StartPositions, q \in StartPositions :
        produced[p].event.index = produced[q].event.index => p = q

\* the native event received by this step is of one of the kinds
Receives(kinds) ==
    /\ Len(received') = Len(received) + 1
    /\ received'[Len(received')].event.kind \in kinds

\* C27: while the generator lives, the announced indices are exactly the
\* indices a ContentBlockStart has been emitted for; the set never shrinks,
\* and a native block stop, message start, message stop or metadata leaves
\* it as it is.
C27_AnnouncedIndices ==
    /\ [](pc # "panicked" => block_starts = StartedIndices)
    /\ [][/\ block_starts \subseteq block_starts'
          /\ Receives({"ContentBlockStop", "MessageStart", "MessageStop", "Metadata"})
             => block_starts' = block_starts]_vars

\* two indices are announced, one by a native start and one by a delta, and
\* a block stop followed
C27_Witness ==
    /\ block_starts = {0, 1}
    /\ Len(received) = 3
    /\ {NativeKind(1), NativeKind(2)} = {"ContentBlockStart", "ContentBlockDelta"}
    /\ NativeKind(3) = "ContentBlockStop"
    /\ pc = "recv"

\* ------------------------------------------------- the staged stop reason
\* the j-th native event staged the stop reason that the k-th found staged
StagedBy(j, k) ==
    /\ j < k
    /\ NativeKind(j) = "MessageStop"
    /\ is_none(received[j].staged)
    /\ is_some(StagedAfter(j))
    /\ \A m \in (j + 1)..(k - 1) : NativeKind(m) # "Metadata"

\* C28: a native message stop that arrives while a stop reason is staged
\* leaves the staged one as it is, and the MessageDelta emitted for a later
\* metadata signal carries the stop reason that was staged first.
C28_FirstStopReasonWins ==
    /\ \A k \in Arrivals :
          (NativeKind(k) = "MessageStop" /\ is_some(received[k].staged))
          => StagedAfter(k) = received[k].staged
    /\ \A k \in Arrivals, j \in Arrivals :
          (/\ StagedBy(j, k)
           /\ NativeKind(k) = "Metadata"
           /\ is_some(received[k].event.usage))
          => /\ ItemsOf(k) # <<>>
             /\ IsEvent(ItemsOf(k)[1], "message_delta")
             /\ Some(ItemsOf(k)[1].event.delta.stop_reason)
                   = stop_reason_of(received[j].event.stop_reason)

\* end_turn was staged, a message stop with another stop reason was turned
\* down, and the metadata signal has been answered
C28_Witness ==
    /\ Len(received) = 3
    /\ StagedBy(1, 3)
    /\ received[1].event.stop_reason = "EndTurn"
    /\ NativeKind(2) = "MessageStop"
    /\ received[2].event.stop_reason = "MaxTokens"
    /\ NativeKind(3) = "Metadata"
    /\ pc = "recv"
    /\ ItemsOf(3)[1].event.delta.stop_reason = "end_turn"

\* --------------------------------------------- the passthrough's failures
\* the produced stream holds one error item, its last, and has ended or will
\* end at the next pull without another frame being read
EndsWithItsOnlyError ==
    /\ sse_produced # <<>>
    /\ ~sse_produced[Len(sse_produced)].ok
    /\ Cardinality({j \in SsePositions : ~sse_produced[j].ok}) = 1
    /\ sse_pc \in {"return", "done", "dropped"}

\* C29: a Message frame whose data does not parse as an Event, and an event
\* source that cannot be opened, each produce exactly one error item, and the
\* produced stream ends there: no later frame is read and no item follows.
C29_FailureEndsPassthrough ==
    /\ [](\A k \in FrameArrivals :
             (FrameKind(k) = "Message" /\ ~Parses(k))
             => /\ SseItemsOf(k) = <<Err("serde_json")>>
                /\ k = Len(frames)
                /\ EndsWithItsOnlyError)
    /\ []((es = "none" /\ sse_pc \in {"es_next", "return", "done"})
          => /\ sse_produced = <<Err("event_source")>>
             /\ frames = <<>>
             /\ EndsWithItsOnlyError)
    /\ [][sse_pc = "return"
          => /\ UNCHANGED <<frames, sse_produced>>
             /\ sse_pc' \in {"return", "done", "dropped"}]_vars

\* an event, then data that is no event, with frames still to come: the
\* stream has ended after the error item
C29_Witness ==
    /\ Len(frames) = 2
    /\ Parses(1)
    /\ FrameKind(2) = "Message"
    /\ ~Parses(2)
    /\ sse_pc = "done"
    /\ sse_produced = <<Ok(MessageStop), Err("serde_json")>>

\* ------------------------------------------------------------ termination
\* the generator has returned or has panicked
Stopped == pc \in {"done", "panicked"}

\* C30: when the native stream ends or fails after n events and the consumer
\* keeps pulling, the generator stops, at the latest when the end of the
\* native stream is seen; it has produced at most 1 + 2n items by then and
\* produces nothing afterwards.
C30_TerminatesWithinBound ==
    /\ [](Len(produced) <= 1 + 2 * Len(received))
    /\ [](s # "open" => pc = "done")
    /\ <>Stopped
    /\ [][Stopped => (Stopped' /\ UNCHANGED <<produced, received>>)]_vars

\* two deltas for two blocks that were not announced, then the end of the
\* native stream: 1 + 2 * 2 items
C30_Witness ==
    /\ pc = "done"
    /\ s = "ended"
    /\ Len(received) = 2
    /\ Len(produced) = 5
====
